---- MODULE Spec2Model ----
(***************************************************************************)
(* A model of the SVCS snapshot engine of maMykola/hyperskill-go-vcs.      *)
(*                                                                         *)
(* The repository holds the program at several stages.  Two of them        *)
(* implement commit and are modelled side by side:                         *)
(*   build = "main.go"   src/main.go lines 1-356 (commit with hasChanges,  *)
(*                       checkout with findCommit / restoreCommit)         *)
(*   build = "part_000"  src/unnamed/part_000 (Commit.Save with            *)
(*                       clearStage, checkout a stub)                      *)
(* The earlier stages (src/main.go lines 358-519, src/unnamed/part_001)    *)
(* have the same config / add code and empty stubs for the rest.           *)
(*                                                                         *)
(* Files are modelled by their content: text files (config.txt, log.txt)   *)
(* as sequences of character codes, index.txt as its sequence of lines,    *)
(* the commits directory as a map from (hash, file name) to bytes.         *)
(***************************************************************************)
EXTENDS Integers, Sequences, FiniteSets, TLC

VARIABLES
    build,       \* which stage of the program runs (fixed in a behaviour)
    tree,        \* working tree: file name -> bytes, for the files that exist
    configFile,  \* ./vcs/config.txt: NoFile or its characters
    indexFile,   \* ./vcs/index.txt: its lines, one file name per line
    logFile,     \* ./vcs/log.txt: its characters
    commitsDir,  \* ./vcs/commits: <<hash, file name>> -> bytes
    out,         \* what the last command did: its name and its report
    history      \* ghost: one record per commit that was logged

vars == <<build, tree, configFile, indexFile, logFile, commitsDir, out, history>>

----------------------------------------------------------------------------
(* Bounds of the model *)

MaxStaged == 2      \* lines of index.txt
MaxCommits == 2     \* commits logged in one behaviour

(* Character codes *)
SP == 32            \* ' '
NL == 10            \* '\n'

Builds == {"main.go", "part_000"}
Paths == {"a", "b"}
Contents == {<<>>, <<1>>}
DigestContents == {<<1>>, <<2>>}
Usernames == {<<117>>, <<>>, <<117, SP, 117>>}
Messages == {<<109, SP, 109>>, <<109, NL, 109>>}
NoFile == <<-1>>

----------------------------------------------------------------------------
(* Go library functions used by the program *)

\* the elements of s from index i on
Tail_(s, i) == SubSeq(s, i, Len(s))

\* position of the first c in s, 0 when there is none
RECURSIVE IndexOf(_, _, _)
IndexOf(s, c, i) ==
    IF i > Len(s) THEN 0
    ELSE IF s[i] = c THEN i
    ELSE IndexOf(s, c, i + 1)

\* bufio.Scanner with the default ScanLines: the lines of a text, without
\* their line ends; a last line without a line end counts when not empty
RECURSIVE ScanLines(_)
ScanLines(text) ==
    IF text = <<>> THEN <<>>
    ELSE LET k == IndexOf(text, NL, 1)
         IN IF k = 0 THEN <<text>>
            ELSE <<SubSeq(text, 1, k - 1)>> \o ScanLines(Tail_(text, k + 1))

\* strings.SplitN(s, " ", n) for n >= 1
RECURSIVE SplitN(_, _)
SplitN(s, n) ==
    LET k == IndexOf(s, SP, 1)
    IN IF n = 1 \/ k = 0 THEN <<s>>
       ELSE <<SubSeq(s, 1, k - 1)>> \o SplitN(Tail_(s, k + 1), n - 1)

\* hex.EncodeToString(sha256.Sum(bytes)): the digest is idealised as an
\* injective, never empty string of characters that are neither SP nor NL
sha256Hex(bytes) == <<104>> \o [i \in 1..Len(bytes) |-> 48 + bytes[i]]

----------------------------------------------------------------------------
(* Reports *)

Report(cmd, status, shown) ==
    [cmd |-> cmd, status |-> status, shown |-> shown]

----------------------------------------------------------------------------
(* config *)

setUsername(username) == configFile' = username

\* the first line of config.txt; an error when the file cannot be opened
getUsernameErr == configFile = NoFile
getUsername ==
    LET lines == ScanLines(configFile)
    IN IF lines = <<>> THEN <<>> ELSE lines[1]

doConfig(args) ==
    /\ IF Len(args) = 1 THEN setUsername(args[1]) ELSE UNCHANGED configFile
    /\ out' = Report("config", IF configFile' = NoFile THEN "who" ELSE "username", <<>>)
    /\ UNCHANGED <<build, tree, indexFile, logFile, commitsDir, history>>

----------------------------------------------------------------------------
(* add *)

getTrackedFiles == indexFile

\* a stat that never fails: the check of the file name left out
statErr_Never(filename) == FALSE

\* os.Stat(filename) returns an error: no such file in the working tree
statErr(filename) == filename \notin DOMAIN tree

\* set semantics: a file name already staged is not written again
appendIndex_Unique(filename) ==
    IF \E i \in 1..Len(indexFile) : indexFile[i] = filename
    THEN indexFile
    ELSE Append(indexFile, filename)

\* index.txt opened with O_APPEND and filename + "\n" written to it
appendIndex(filename) == Append(indexFile, filename)

doAdd(args) ==
    /\ IF Len(args) # 1
       THEN /\ out' = Report("add", IF getTrackedFiles = <<>> THEN "hint" ELSE "tracked files", <<>>)
            /\ UNCHANGED indexFile
       ELSE LET filename == args[1]
            IN IF statErr(filename)
               THEN /\ out' = Report("add", "can't find", <<>>)
                    /\ UNCHANGED indexFile
               ELSE /\ Len(indexFile) < MaxStaged
                    /\ indexFile' = appendIndex(filename)
                    /\ out' = Report("add", "tracked", <<>>)
    /\ UNCHANGED <<build, tree, configFile, logFile, commitsDir, history>>

----------------------------------------------------------------------------
(* The user edits the working tree between commands *)

WriteFile(p, c) ==
    /\ tree' = [q \in DOMAIN tree \cup {p} |-> IF q = p THEN c ELSE tree[q]]
    /\ tree' # tree
    /\ out' = Report("edit", "written", <<>>)
    /\ UNCHANGED <<build, configFile, indexFile, logFile, commitsDir, history>>

RemoveFile(p) ==
    /\ p \in DOMAIN tree
    /\ tree' = [q \in DOMAIN tree \ {p} |-> tree[q]]
    /\ out' = Report("edit", "removed", <<>>)
    /\ UNCHANGED <<build, configFile, indexFile, logFile, commitsDir, history>>

----------------------------------------------------------------------------
(* log *)

\* one line of log.txt as a Commit; data[1] and data[2] of the source are
\* data[2] and data[3] here
parseLine(line) ==
    LET data == SplitN(line, 3)
    IN [Hash |-> data[1], Username |-> data[2], Message |-> data[3]]

\* a line with fewer than three fields makes getCommits index out of range
getCommitsPanics ==
    \E i \in 1..Len(ScanLines(logFile)) : Len(SplitN(ScanLines(logFile)[i], 3)) < 3

Reverse(s) == [i \in 1..Len(s) |-> s[Len(s) + 1 - i]]

\* main.go: the commits in the order of the lines of log.txt
getCommits ==
    LET lines == ScanLines(logFile)
    IN [i \in 1..Len(lines) |-> parseLine(lines[i])]

\* part_000: the same, reversed before it is returned
getCommits_000 == Reverse(getCommits)

\* main.go: shows commits[len-1], then commits[len-2] down to commits[0]
doLogShown(commits) == [i \in 1..Len(commits) |-> commits[Len(commits) + 1 - i]]

\* part_000: shows commits[0], then commits[1] up to commits[len-1]
doLogShown_000(commits) == commits

doLog ==
    /\ build = "main.go"
    /\ out' = IF getCommitsPanics THEN Report("log", "panic", <<>>)
              ELSE IF Len(getCommits) = 0 THEN Report("log", "no commits yet", <<>>)
              ELSE Report("log", "shown", doLogShown(getCommits))
    /\ UNCHANGED <<build, tree, configFile, indexFile, logFile, commitsDir, history>>

doLog_000 ==
    /\ build = "part_000"
    /\ out' = IF getCommitsPanics THEN Report("log", "panic", <<>>)
              ELSE IF Len(getCommits_000) = 0 THEN Report("log", "no commits yet", <<>>)
              ELSE Report("log", "shown", doLogShown_000(getCommits_000))
    /\ UNCHANGED <<build, tree, configFile, indexFile, logFile, commitsDir, history>>

----------------------------------------------------------------------------
(* commit *)

\* os.Open fails on a staged file that is no longer in the working tree
computeHashFatal(files) == \E i \in 1..Len(files) : files[i] \notin DOMAIN tree

\* the bytes of the files, one after the other, as io.Copy feeds them to
\* the one sha256 accumulator
RECURSIVE Stream(_)
Stream(files) ==
    IF files = <<>> THEN <<>>
    ELSE tree[Head(files)] \o Stream(Tail(files))

\* a digest of the number of bytes only: blind to the order of the files
computeHash_LengthOnly(files) == sha256Hex(<<Len(Stream(files))>>)

computeHash(files) == sha256Hex(Stream(files))

\* os.Stat of commits/<hash>: the directory exists once copyFile has made it
hasChanges(hash) == ~ \E k \in DOMAIN commitsDir : k[1] = hash

\* copyFile(commits/<hash>/<filename>, <filename>) on the store `dir`
copyFile(dir, hash, filename) ==
    [k \in DOMAIN dir \cup {<<hash, filename>>} |->
        IF k = <<hash, filename>> THEN tree[filename] ELSE dir[k]]

RECURSIVE commitFiles(_, _, _)
commitFiles(dir, hash, files) ==
    IF files = <<>> THEN dir
    ELSE commitFiles(copyFile(dir, hash, Head(files)), hash, Tail(files))

\* log.txt opened with O_TRUNC: the line replaces the file
addLog_Truncating(c) == c.Hash \o <<SP>> \o c.Username \o <<SP>> \o c.Message \o <<NL>>

\* log.txt opened with O_APPEND and fmt.Sprintf("%s %s %s\n", ...) written
addLog(c) == logFile \o c.Hash \o <<SP>> \o c.Username \o <<SP>> \o c.Message \o <<NL>>

\* os.Truncate(indexFile, 0)
clearStage == <<>>

\* ghost: what a logged commit staged, and the bytes the files had then
Logged(hash, username, message, files) ==
    [hash |-> hash, author |-> username, message |-> message, files |-> files,
     bytes |-> [p \in {files[i] : i \in 1..Len(files)} |-> tree[p]]]

\* How the file operations of one commit end: all succeed, or one fails and
\* log.Fatal ends the process there.  "copy" k: copyFile of the k-th staged
\* file fails (os.Open, os.Create or io.Copy) after the files before it were
\* copied, and nothing of the k-th file is kept; "log": os.OpenFile of
\* log.txt fails in addLog; "clear": os.Truncate fails in clearStage.
NoFault == [at |-> "none", k |-> 0]
IOs ==
    {NoFault, [at |-> "log", k |-> 0], [at |-> "clear", k |-> 0]}
        \cup {[at |-> "copy", k |-> k] : k \in 1..MaxStaged}

\* the files commitFiles has copied when the process ends
Copied(files, io) ==
    IF io.at = "copy" THEN SubSeq(files, 1, io.k - 1) ELSE files

\* addLog called before commitFiles: the line is written before a copy fails
saveCommitEffect_LogFirst(hash, files, c, io) ==
    [dir |-> commitFiles(commitsDir, hash, Copied(files, io)),
     log |-> IF io.at \in {"none", "copy"} THEN addLog(c) ELSE logFile]

\* main.go, saveCommit lines 285-286: commitFiles, then addLog
saveCommitEffect(hash, files, c, io) ==
    [dir |-> commitFiles(commitsDir, hash, Copied(files, io)),
     log |-> IF io.at = "none" THEN addLog(c) ELSE logFile]

\* main.go: saveCommit, with doCommit's report of its result
saveCommit(args, username, message, io) ==
    LET files == getTrackedFiles
        hash == computeHash(files)
        eff == saveCommitEffect(hash, files,
                   [Hash |-> hash, Username |-> username, Message |-> message], io)
    IN IF computeHashFatal(files)
       THEN /\ io = NoFault
            /\ out' = Report("commit", "fatal", <<>>)
            /\ UNCHANGED <<logFile, commitsDir, history>>
       ELSE IF hasChanges(hash)
       THEN /\ \/ io.at \in {"none", "log"}
               \/ io.at = "copy" /\ io.k <= Len(files)
            /\ commitsDir' = eff.dir
            /\ logFile' = eff.log
            /\ IF io = NoFault
               THEN /\ Len(history) < MaxCommits
                    /\ history' = Append(history, Logged(hash, username, message, files))
                    /\ out' = Report("commit", "committed", <<>>)
               ELSE /\ history' = IF eff.log = logFile THEN history
                                  ELSE Append(history, Logged(hash, username, message, files))
                    /\ out' = Report("commit", "fatal", <<>>)
       ELSE /\ io = NoFault
            /\ out' = Report("commit", "nothing to commit", <<>>)
            /\ UNCHANGED <<logFile, commitsDir, history>>

doCommit(args, io) ==
    /\ build = "main.go"
    /\ IF Len(args) # 1
       THEN /\ io = NoFault
            /\ out' = Report("commit", "no message", <<>>)
            /\ UNCHANGED <<logFile, commitsDir, history>>
       ELSE IF getUsernameErr
       THEN /\ io = NoFault
            /\ out' = Report("commit", "who", <<>>)
            /\ UNCHANGED <<logFile, commitsDir, history>>
       ELSE saveCommit(args, getUsername, args[1], io)
    /\ UNCHANGED <<build, tree, configFile, indexFile>>

\* copyFile returning on an error instead of log.Fatal: Save goes on
SaveEffect_ErrorsIgnored(hash, c, io) ==
    [dir |-> commitFiles(commitsDir, hash, Copied(c.Files, io)),
     log |-> addLog([Hash |-> hash, Username |-> c.Author, Message |-> c.Message]),
     stage |-> clearStage]

\* part_000, Commit.Save lines 268-270: commitFiles, addLog, clearStage
SaveEffect(hash, c, io) ==
    [dir |-> commitFiles(commitsDir, hash, Copied(c.Files, io)),
     log |-> IF io.at \in {"none", "clear"}
             THEN addLog([Hash |-> hash, Username |-> c.Author, Message |-> c.Message])
             ELSE logFile,
     stage |-> IF io.at = "none" THEN clearStage ELSE indexFile]

\* part_000: Commit.Save, with doCommit's report
Save(args, c, io) ==
    LET hash == computeHash(c.Files)
        eff == SaveEffect(hash, c, io)
    IN IF computeHashFatal(c.Files)
       THEN /\ io = NoFault
            /\ out' = Report("commit", "fatal", <<>>)
            /\ UNCHANGED <<indexFile, logFile, commitsDir, history>>
       ELSE /\ \/ io.at \in {"none", "log", "clear"}
               \/ io.at = "copy" /\ io.k <= Len(c.Files)
            /\ eff.log # logFile => Len(history) < MaxCommits
            /\ commitsDir' = eff.dir
            /\ logFile' = eff.log
            /\ indexFile' = eff.stage
            /\ history' = IF eff.log = logFile THEN history
                          ELSE Append(history, Logged(hash, c.Author, c.Message, c.Files))
            /\ out' = Report("commit", IF io = NoFault THEN "committed" ELSE "fatal", <<>>)

doCommit_000(args, io) ==
    /\ build = "part_000"
    /\ IF Len(args) # 1
       THEN /\ io = NoFault
            /\ out' = Report("commit", "no message", <<>>)
            /\ UNCHANGED <<indexFile, logFile, commitsDir, history>>
       ELSE IF Len(getTrackedFiles) = 0
       THEN /\ io = NoFault
            /\ out' = Report("commit", "nothing to commit", <<>>)
            /\ UNCHANGED <<indexFile, logFile, commitsDir, history>>
       ELSE IF getUsernameErr
       THEN /\ io = NoFault
            /\ out' = Report("commit", "who", <<>>)
            /\ UNCHANGED <<indexFile, logFile, commitsDir, history>>
       ELSE Save(args, [Message |-> args[1], Files |-> getTrackedFiles, Author |-> getUsername], io)
    /\ UNCHANGED <<build, tree, configFile>>

----------------------------------------------------------------------------
(* checkout *)

\* main.go: the first commit of getCommits with this hash; 0 when none
findCommit(hash) == 
    LET commits == getCommits
        found == {i \in 1..Len(commits) : commits[i].Hash = hash}
    IN IF found = {} THEN 0 ELSE CHOOSE i \in found : \A j \in found : i <= j

\* main.go: restoreCommit only shows the commit; it writes no file
restoreCommit(commit) == tree

doCheckout(args) ==
    /\ build = "main.go"
    /\ IF Len(args) # 1
       THEN /\ out' = Report("checkout", "no commit id", <<>>)
            /\ UNCHANGED tree
       ELSE IF getCommitsPanics
       THEN /\ out' = Report("checkout", "panic", <<>>)
            /\ UNCHANGED tree
       ELSE IF findCommit(args[1]) = 0
       THEN /\ out' = Report("checkout", "commit does not exist", <<>>)
            /\ UNCHANGED tree
       ELSE /\ tree' = restoreCommit(getCommits[findCommit(args[1])])
            /\ out' = Report("checkout", "restored", <<getCommits[findCommit(args[1])]>>)
    /\ UNCHANGED <<build, configFile, indexFile, logFile, commitsDir, history>>

\* part_000: a stub that prints the help line of checkout
doCheckout_000(args) ==
    /\ build = "part_000"
    /\ out' = Report("checkout", "help", <<>>)
    /\ UNCHANGED <<build, tree, configFile, indexFile, logFile, commitsDir, history>>

\* the hashes a user can pass: those of the log, and one that is not there
KnownHashes == {history[i].hash : i \in 1..Len(history)}
Hashes == KnownHashes \cup {sha256Hex(<<3>>)}

----------------------------------------------------------------------------

Init ==
    /\ build \in Builds
    /\ tree = <<>>
    /\ configFile = NoFile
    /\ indexFile = <<>>
    /\ logFile = <<>>
    /\ commitsDir = <<>>
    /\ out = Report("none", "none", <<>>)
    /\ history = <<>>

\* the commands and edits a user can make, with their arguments drawn from
\* the given file names, contents, user names and commit messages, and the
\* file operations of commit ending in one of the given ways
NextOn(paths, contents, usernames, messages, ios) ==
    \/ \E u \in usernames : doConfig(<<u>>)
    \/ doConfig(<<>>)
    \/ \E p \in paths : doAdd(<<p>>)
    \/ doAdd(<<>>)
    \/ \E p \in paths, c \in contents : WriteFile(p, c)
    \/ \E p \in paths : RemoveFile(p)
    \/ doLog
    \/ doLog_000
    \/ \E m \in messages, io \in ios : doCommit(<<m>>, io)
    \/ doCommit(<<>>, NoFault)
    \/ \E m \in messages, io \in ios : doCommit_000(<<m>>, io)
    \/ doCommit_000(<<>>, NoFault)
    \/ \E h \in Hashes : doCheckout(<<h>>)
    \/ doCheckout(<<>>)
    \/ \E h \in Hashes : doCheckout_000(<<h>>)
    \/ doCheckout_000(<<>>)

\* Spec: every file name and content, one user name, one message, no failure
Next == NextOn(Paths, Contents, {<<117>>}, {<<109, SP, 109>>}, {NoFault})

Spec == Init /\ [][Next]_vars

\* SpecText: one file, every user name and message, no failure
NextText == NextOn({"a"}, {<<1>>}, Usernames, Messages, {NoFault})

SpecText == Init /\ [][NextText]_vars

\* SpecFault: every file name, one content, user name and message, and
\* every way the file operations of commit can fail
NextFault == NextOn(Paths, {<<1>>}, {<<117>>}, {<<109, SP, 109>>}, IOs)

SpecFault == Init /\ [][NextFault]_vars

\* SpecDigest: as Spec, with files whose contents differ in a byte
NextDigest == NextOn(Paths, DigestContents, {<<117>>}, {<<109, SP, 109>>}, {NoFault})
SpecDigest == Init /\ [][NextDigest]_vars

----------------------------------------------------------------------------
(* Helpers of the claims *)

IsPrefix(s, t) == Len(s) <= Len(t) /\ SubSeq(t, 1, Len(s)) = s

\* some commit command with a message, in either build, ending as io says
CommitEnds(io) == \E m \in Messages : doCommit(<<m>>, io) \/ doCommit_000(<<m>>, io)

\* a commit command with a message in which no file operation fails
CommitStep == CommitEnds(NoFault)

\* checkout of hash h, in either build
CheckoutStep(h) == doCheckout(<<h>>) \/ doCheckout_000(<<h>>)

\* the staged files are those of the last logged commit, in the same order
\* and with the same digest.  Only a logged commit writes the store, so the
\* store has not changed since that commit ended.
SameAsLastCommit ==
    /\ history # <<>>
    /\ indexFile = history[Len(history)].files
    /\ ~ computeHashFatal(indexFile)
    /\ computeHash(indexFile) = history[Len(history)].hash

----------------------------------------------------------------------------
(* C1: for every commit c of the log, checkout(c.hash) leaves every file of *)
(* c.files in the working tree with exactly the bytes it had when c was     *)
(* committed, whatever was done to the working tree since.                  *)
C1_CheckoutRestores ==
    [][\A i \in 1..Len(history) :
          CheckoutStep(history[i].hash) =>
              \A f \in DOMAIN history[i].bytes :
                  f \in DOMAIN tree' /\ tree'[f] = history[i].bytes[f]]_vars

(* C2: when commit is invoked again with the staged content of the last     *)
(* commit, in the same order and with the store unchanged in between, the   *)
(* second invocation reports "nothing to commit" and leaves the log, the    *)
(* store and the staging list unchanged (so one snapshot and one log entry  *)
(* at most are written by the two).                                         *)
C2_SecondCommitIsNoOp ==
    [][CommitStep /\ SameAsLastCommit =>
          /\ out'.status = "nothing to commit"
          /\ UNCHANGED <<logFile, commitsDir, indexFile>>]_vars

(* C3: commit with an empty staging list (and a configured author) reports  *)
(* "nothing to commit", appends no log entry and stores no snapshot.        *)
C3_EmptyCommitIsNoOp ==
    [][CommitStep /\ indexFile = <<>> /\ ~ getUsernameErr =>
          /\ out'.status = "nothing to commit"
          /\ UNCHANGED <<logFile, commitsDir>>]_vars

(* C4: right after a commit that reports success the staging list is empty, *)
(* and a step that empties a staging list is a commit that reports success. *)
C4_ClearedBySuccessfulCommit ==
    /\ [](out.cmd = "commit" /\ out.status = "committed" => indexFile = <<>>)
    /\ [][indexFile # <<>> /\ indexFile' = <<>> =>
              out'.cmd = "commit" /\ out'.status = "committed"]_vars

(* C5: no two entries of the commit log have the same hash.                 *)
C5_UniqueHashes ==
    ~ getCommitsPanics =>
        \A i, j \in 1..Len(getCommits) :
            i # j => getCommits[i].Hash # getCommits[j].Hash

(* C6: log on an empty log reports "no commits yet"; after N logged commits *)
(* it shows exactly N entries, the most recently committed first: the i-th  *)
(* entry shown is the (N+1-i)-th commit made.                               *)
C6_HistoryNewestFirst ==
    out.cmd = "log" =>
        IF history = <<>>
        THEN out.status = "no commits yet"
        ELSE /\ out.status = "shown"
             /\ Len(out.shown) = Len(history)
             /\ \A i \in 1..Len(history) :
                    out.shown[i].Hash = history[Len(history) + 1 - i].hash

(* C7: the commit log is append-only: in every step the log before the     *)
(* step is a prefix of the log after it, and the log after it ends with a  *)
(* line end, so that no line written earlier is removed, moved, changed or *)
(* continued.                                                              *)
C7_LogAppendOnly ==
    [][/\ IsPrefix(logFile, logFile')
       /\ logFile' # <<>> => logFile'[Len(logFile')] = NL]_vars

\* the log was appended to while it already held a commit
C7_Witness ==
    /\ out.cmd = "commit" /\ out.status = "committed"
    /\ Len(history) = 2
    /\ Len(ScanLines(logFile)) >= 2

(* C8: the bytes stored for a file under a digest never change once they   *)
(* are stored, whatever commands and edits follow.                         *)
C8_StoreImmutable ==
    [][\A k \in DOMAIN commitsDir :
          k \in DOMAIN commitsDir' /\ commitsDir'[k] = commitsDir[k]]_vars

(* C9: add of a path that is not in the working tree reports that it       *)
(* cannot be found and leaves the staging list, the log and the store as   *)
(* they were.                                                              *)
C9_AddMissingIsNoOp ==
    [][\A p \in Paths :
          doAdd(<<p>>) /\ p \notin DOMAIN tree =>
              /\ out'.status = "can't find"
              /\ UNCHANGED <<indexFile, logFile, commitsDir>>]_vars

\* add has refused a missing file while files were staged and committed
C9_Witness ==
    /\ out.cmd = "add" /\ out.status = "can't find"
    /\ indexFile # <<>>
    /\ logFile # <<>>

C11_AuthorRequired ==
    /\ [][CommitStep /\ (getUsernameErr \/ getUsername = <<>>) =>
              /\ out'.status \in
                     (IF indexFile = <<>> THEN {"who", "nothing to commit"} ELSE {"who"})
              /\ UNCHANGED <<logFile, commitsDir, indexFile>>]_vars
    /\ [](~ getCommitsPanics =>
              \A i \in 1..Len(getCommits) : getCommits[i].Username # <<>>)

\* a commit command in which the copy of some staged file fails
CopyFails == \E k \in 1..MaxStaged : CommitEnds([at |-> "copy", k |-> k])

\* a commit command in which a staged file cannot be read while hashing
HashFails == CommitStep /\ ~ getUsernameErr /\ computeHashFatal(indexFile)

(* C12: when a staged file cannot be read while hashing or copying, or a   *)
(* destination in the store cannot be written, commit aborts: no log entry *)
(* is appended and the staging list is not cleared.                        *)
C12_AbortKeepsLogAndStage ==
    [][CopyFails \/ HashFails =>
          /\ out'.status = "fatal"
          /\ UNCHANGED <<logFile, indexFile>>]_vars

\* a commit has aborted while copying: a snapshot is in the store in part,
\* the log has no entry for it and the files are still staged
C12_Witness ==
    /\ out.cmd = "commit" /\ out.status = "fatal"
    /\ indexFile # <<>>
    /\ \E k \in DOMAIN commitsDir : k[1] \notin KnownHashes

C13_CheckoutResolves ==
    [][\A h \in Hashes :
          CheckoutStep(h) =>
              LET found == {i \in 1..Len(history) : history[i].hash = h}
              IN IF found = {}
                 THEN /\ out'.status = "commit does not exist"
                      /\ UNCHANGED <<tree, indexFile, logFile, commitsDir>>
                 ELSE /\ out'.status = "restored"
                      /\ Len(out'.shown) = 1
                      /\ out'.shown[1].Hash = h]_vars

\* the orderings of a staged list: the same entries, in every order
Orderings(files) ==
    {[i \in 1..Len(files) |-> files[f[i]]] :
        f \in {g \in [1..Len(files) -> 1..Len(files)] :
                  \A i, j \in 1..Len(files) : g[i] = g[j] => i = j}}

\* the bytes of the listed files of the working tree, one file after another
RECURSIVE Bytes(_)
Bytes(files) ==
    IF files = <<>> THEN <<>>
    ELSE Bytes(SubSeq(files, 1, Len(files) - 1)) \o tree[files[Len(files)]]

(* C14 as stated: any two different orderings of the staged files have     *)
(* different digests, whatever the files hold.                             *)
C14_OrderingsDiffer ==
    ~ computeHashFatal(indexFile) =>
        \A p, q \in Orderings(indexFile) :
            p # q => computeHash(p) # computeHash(q)

(* C14, amended: two orderings of the staged files have the same digest    *)
(* exactly when the bytes of the files, read one after another in the two  *)
(* orders, are the same bytes; orderings that differ in these bytes have   *)
(* different digests.                                                      *)
C14_OrderingsDifferByBytes ==
    ~ computeHashFatal(indexFile) =>
        \A p, q \in Orderings(indexFile) :
            computeHash(p) = computeHash(q) <=> Bytes(p) = Bytes(q)

\* a commit has digested two staged files, and the other ordering of the
\* two has another digest
C14_Witness ==
    /\ out.cmd = "commit" /\ out.status = "committed"
    /\ history # <<>>
    /\ Len(indexFile) = 2
    /\ history[Len(history)].files = indexFile
    /\ ~ computeHashFatal(indexFile)
    /\ computeHash(indexFile) = history[Len(history)].hash
    /\ computeHash(<<indexFile[2], indexFile[1]>>) # computeHash(indexFile)

\* the bytes the store holds under hash for the listed files, one file
\* after another
RECURSIVE StoredBytes(_, _)
StoredBytes(hash, files) ==
    IF files = <<>> THEN <<>>
    ELSE StoredBytes(hash, SubSeq(files, 1, Len(files) - 1))
             \o commitsDir[<<hash, files[Len(files)]>>]

\* every file of the commit is in the store under the hash of the commit
AllStored(c) ==
    \A k \in 1..Len(c.files) : <<c.hash, c.files[k]>> \in DOMAIN commitsDir

(* C15: in every reachable state, the hash of every commit of the log is   *)
(* the digest of the content the store holds for the files of that commit, *)
(* taken in the order in which they were staged.                           *)
C15_HashOfStoredContent ==
    \A i \in 1..Len(history) :
        AllStored(history[i]) =>
            history[i].hash = sha256Hex(StoredBytes(history[i].hash, history[i].files))

\* the commits as the build reads them from log.txt, oldest first
ReadBack == IF build = "main.go" THEN getCommits ELSE Reverse(getCommits_000)

\* no message of a logged commit holds a line end
NoLineEnds ==
    \A i \in 1..Len(history) :
        \A k \in 1..Len(history[i].message) : history[i].message[k] # NL

(* C16: the log round-trips: when no message holds a line end, reading the *)
(* log back yields one entry per appended commit, with exactly the hash,   *)
(* the author and the message it was appended with, whatever the           *)
(* configured author name is.                                              *)
C16_LogRoundTrip ==
    NoLineEnds =>
        /\ ~ getCommitsPanics
        /\ Len(ReadBack) = Len(history)
        /\ \A i \in 1..Len(history) :
               ReadBack[i] = [Hash |-> history[i].hash,
                              Username |-> history[i].author,
                              Message |-> history[i].message]

(* C18: in every state, every commit of the log has a container in the    *)
(* store under its hash, and the container holds a copy of every file that *)
(* was staged for the commit.                                              *)
C18_LoggedIsStored ==
    \A i \in 1..Len(history) :
        /\ ~ hasChanges(history[i].hash)
        /\ AllStored(history[i])

\* the digests the log names, read from the lines of log.txt
LoggedHashes ==
    {SplitN(ScanLines(logFile)[i], 3)[1] : i \in 1..Len(ScanLines(logFile))}

(* C19: in every state, every digest that has a container in the store has *)
(* an entry in the log; so a commit is answered "nothing to commit" only   *)
(* when nothing is staged or the log has an entry for the digest of the    *)
(* staged files.                                                           *)
C19_StoredIsLogged ==
    /\ [](\A k \in DOMAIN commitsDir : k[1] \in LoggedHashes)
    /\ [][CommitStep /\ out'.status = "nothing to commit" =>
              \/ indexFile = <<>>
              \/ computeHash(indexFile) \in LoggedHashes]_vars

====
